---- MODULE Spec2Model ----
\* didder: the post-processing / assembly pipeline of subcommands.go and
\* subcommand_helpers.go (preProcess, recolor, postProcImage, processImages),
\* modelled as a state machine over one run of the program.
EXTENDS Integers, Sequences, FiniteSets, TLC

\* ------------------------------------------------------------------ bounds
MaxInputs == 3
MaxUpscale == 2
MaxPaletteLen == 2

\* ------------------------------------------------- machine integers (Go int)
\* Go's int and uint are as wide as the build's machine word. The release
\* builds include 32-bit targets (386, arm), and that is the width modelled.
IntBits == 32
MaxInt == (2 ^ (IntBits - 2) - 1) * 2 + 1
MinInt == (-MaxInt) - 1
Limb == 2 ^ 16

\* A uint is kept as two 16-bit limbs [hi, lo], value hi * 2^16 + lo, because
\* its upper half does not fit the model checker's integers.
UintOf(hi, lo) == [hi |-> hi, lo |-> lo]

\* int(u) for a uint u: the same bits read as two's complement.
IntOfUint(u) ==
    IF u.hi >= Limb \div 2 THEN (u.hi - Limb) * Limb + u.lo ELSE u.hi * Limb + u.lo

\* x - 1 on an int, wrapping at the lowest value.
IntDec(x) == IF x = MinInt THEN MaxInt ELSE x - 1

\* ------------------------------------------------------ float64 arithmetic
\* An fps value is the exact rational num/den (num, den > 0). The quotient
\* 100.0/fps is 100*hi + 100*r/num with hi = den \div num and r = den % num;
\* math.Round rounds halves away from zero. The rounded value is kept as
\* [hi, lo], value 100*hi + lo with lo in 0..100, so that it can exceed the
\* range of int.
RoundHalfAway(n, d) == (2 * n + d) \div (2 * d)

RoundedHundredOver(fps) ==
    [hi |-> fps.den \div fps.num,
     lo |-> RoundHalfAway(100 * (fps.den % fps.num), fps.num)]

\* math.Max(v, 1) on a rounded non-negative value.
MaxWithOne(v) == IF v.hi = 0 /\ v.lo = 0 THEN [hi |-> 0, lo |-> 1] ELSE v

FitsInt(v) == v.hi <= (MaxInt - v.lo) \div 100

\* int(f) for a float64 f >= 0 that holds an integer: exact when f fits an int;
\* otherwise the Go specification leaves the result to the implementation
\* (the lowest int where the conversion instruction reports "indefinite", the
\* highest where it saturates).
IntOfFloat(v) == IF FitsInt(v) THEN {100 * v.hi + v.lo} ELSE {MinInt, MaxInt}

\* The values delays[i] can take (subcommand_helpers.go line 398).
DelayValues(fps) == IntOfFloat(MaxWithOne(RoundedHundredOver(fps)))

\* loopCount as stored in animGIF.LoopCount (lines 401-409).
LoopCountOf(loop) ==
    LET loopCount == IntOfUint(loop) IN
    IF loopCount = 1 THEN -1
    ELSE IF loopCount # 0 THEN IntDec(loopCount)
    ELSE loopCount

\* ------------------------------------------------------------------ colours
\* color.NRGBA and color.RGBA values, 8 bits a channel.
NRGBA(r, g, b, a) == [m |-> "NRGBA", R |-> r, G |-> g, B |-> b, A |-> a]
RGBA(r, g, b, a) == [m |-> "RGBA", R |-> r, G |-> g, B |-> b, A |-> a]

Black == NRGBA(0, 0, 0, 255)
White == NRGBA(255, 255, 255, 255)
Red == NRGBA(255, 0, 0, 255)
Indigo == NRGBA(75, 0, 130, 255)
SemiRed == NRGBA(100, 0, 0, 128)

\* c.RGBA(): the alpha-premultiplied 16-bit channels of a colour.
Premul16(v, a) == ((v * 257) * a) \div 255

ColorRGBA(c) ==
    IF c.m = "NRGBA"
    THEN [r |-> Premul16(c.R, c.A), g |-> Premul16(c.G, c.A),
          b |-> Premul16(c.B, c.A), a |-> c.A * 257]
    ELSE [r |-> c.R * 257, g |-> c.G * 257, b |-> c.B * 257, a |-> c.A * 257]

\* (v * 0xffff) / a for v <= a <= 0xffff, computed without leaving 32 bits.
UnPremul16(v, a) ==
    LET q1 == (v * 256) \div a
        r1 == (v * 256) % a
        q2 == (r1 * 256) \div a
        r2 == (r1 * 256) % a
    IN q1 * 256 + q2 + ((r2 - v) \div a)

\* color.NRGBAModel.Convert
NRGBAModelConvert(c) ==
    IF c.m = "NRGBA" THEN c
    ELSE LET p == ColorRGBA(c) IN
         IF p.a = 65535 THEN NRGBA(p.r \div 256, p.g \div 256, p.b \div 256, 255)
         ELSE IF p.a = 0 THEN NRGBA(0, 0, 0, 0)
         ELSE NRGBA(UnPremul16(p.r, p.a) \div 256, UnPremul16(p.g, p.a) \div 256,
                    UnPremul16(p.b, p.a) \div 256, p.a \div 256)

\* color.RGBAModel.Convert
RGBAModelConvert(c) ==
    IF c.m = "RGBA" THEN c
    ELSE LET p == ColorRGBA(c) IN
         RGBA(p.r \div 256, p.g \div 256, p.b \div 256, p.a \div 256)

\* Two colours are equal as colours when their RGBA() values agree.
ColorEq(c, d) == ColorRGBA(c) = ColorRGBA(d)

\* ---------------------------------------------------------- program state
VARIABLES
    flags,           \* the command line as the cli context holds it
    palette,         \* subcommands.go line 30
    recolorPalette,  \* line 34
    grayscale,       \* line 36
    saturation,      \* line 40
    inputImages,     \* line 46
    outFormat,       \* line 47
    outIsDir,        \* line 48
    compLevel,       \* line 50
    outFileFlags,    \* line 52
    upscale,         \* line 57
    ditherer,        \* line 59
    postProcNeeded,  \* line 65
    pc,              \* position in preProcess / processImages
    err,             \* the error the run returned, or NoErr
    isAnimGIF,       \* processImages locals, lines 376-384
    frames,
    delays,
    animGIF,
    i,               \* index of the range loop of line 419
    img,             \* the image of the current iteration
    file,            \* the path the current iteration opened
    disk,            \* the files that exist, with their content
    stdout,          \* what has been written to os.Stdout
    log              \* history of the engine and file-system calls made

vars == <<flags, palette, recolorPalette, grayscale, saturation, inputImages, outFormat,
          outIsDir, compLevel, outFileFlags, upscale, ditherer, postProcNeeded, pc, err,
          isAnimGIF, frames, delays, animGIF, i, img, file, disk, stdout, log>>

globals == <<palette, recolorPalette, grayscale, saturation, inputImages, outFormat,
             outIsDir, compLevel, outFileFlags, upscale, ditherer, postProcNeeded>>

\* An error value: its message and the paths the message names.
Error(msg, paths) == [msg |-> msg, paths |-> paths]
NoErr == Error("nil", <<>>)
NoImg == [type |-> "nil"]
NoFile == [kind |-> "nil"]
NoMatrix == [name |-> "nil", rows |-> <<>>]
NoDitherer == [Matrix |-> NoMatrix, Serpentine |-> FALSE]

Min(S) == CHOOSE x \in S : \A y \in S : x <= y
Max2(a, b) == IF a >= b THEN a ELSE b

\* ------------------------------------------------------------------- images
\* An image is [type, W, H, Pix, Palette, id]: Pix is row-major, pixel (x, y)
\* at position y*W + x + 1; a Paletted image's pixels are 0-based indices into
\* Palette, a generic image's pixels are colours of its own colour model.
\* id is the position of the input the image was loaded from.
PixPos(w, x, y) == y * w + x + 1

\* img.At for pixel position k
At(im, k) == IF im.type = "Paletted" THEN im.Palette[im.Pix[k] + 1] ELSE im.Pix[k]

\* The colour img.Set stores for c
Stored(type, c) == IF type = "RGBA" THEN RGBAModelConvert(c) ELSE NRGBAModelConvert(c)

Max(S) == CHOOSE x \in S : \A y \in S : x >= y

\* A matching loop that keeps going and ends on the last match.
getRecolorLast(a) ==
    LET c == NRGBAModelConvert(a)
        match == {k \in 1..Len(palette) :
                     /\ palette[k].R = c.R
                     /\ palette[k].G = c.G
                     /\ palette[k].B = c.B}
    IN IF match # {} THEN recolorPalette[Max(match)] ELSE recolorPalette[1]

\* getRecolor (lines 289-304): the recolor entry of the first palette entry
\* whose R, G and B equal the colour's, or the first recolor entry.
getRecolor(a) ==
    LET c == NRGBAModelConvert(a)
        match == {k \in 1..Len(palette) :
                     /\ palette[k].R = c.R
                     /\ palette[k].G = c.G
                     /\ palette[k].B = c.B}
    IN IF match # {} THEN recolorPalette[Min(match)] ELSE recolorPalette[1]

\* A rewriting that matches the colour it has just written once more.
RecolorTableChained(tab, k) ==
    [j \in 1..Len(tab) |-> IF j < k THEN tab[j] ELSE getRecolor(getRecolor(tab[j]))]

\* The loop of lines 310-312: the table is rewritten in place, entry by entry,
\* from position k on; no entry's new value depends on another entry.
RecolorTable(tab, k) ==
    [j \in 1..Len(tab) |-> IF j < k THEN tab[j] ELSE getRecolor(tab[j])]

\* The loops of lines 326-332: every pixel is read, matched and set.
RECURSIVE RecolorPixels(_, _, _)
RecolorPixels(type, pix, k) ==
    IF k > Len(pix) THEN pix
    ELSE RecolorPixels(type, [pix EXCEPT ![k] = Stored(type, getRecolor(pix[k]))], k + 1)

IsDrawImage(im) == im.type \in {"Paletted", "RGBA", "NRGBA"}

\* copyOfImage (lines 267-271): an *image.RGBA with the source's pixels.
copyOfImage(im) ==
    [type |-> "RGBA", W |-> im.W, H |-> im.H,
     Pix |-> [k \in 1..(im.W * im.H) |-> RGBAModelConvert(At(im, k))],
     Palette |-> <<>>, id |-> im.id]

\* recolor (lines 280-334)
recolorSlow(src) ==
    LET im == IF IsDrawImage(src) THEN src ELSE copyOfImage(src) IN
    [im EXCEPT !.Pix = RecolorPixels(im.type, im.Pix, 1)]

recolor(src) ==
    IF Len(recolorPalette) = 0 THEN src
    ELSE IF src.type = "Paletted"
    THEN [src EXCEPT !.Palette = RecolorTable(src.Palette, 1)]
    ELSE recolorSlow(src)

\* imaging's conversion of a source pixel to NRGBA (its scanner).
ImagingToNRGBA(c) ==
    IF c.m = "NRGBA" THEN c
    ELSE IF c.A = 0 THEN NRGBA(0, 0, 0, 0)
    ELSE IF c.A = 255 THEN NRGBA(c.R, c.G, c.B, 255)
    ELSE NRGBA((c.R * 255) \div c.A, (c.G * 255) \div c.A, (c.B * 255) \div c.A, c.A)

\* A resampling that rounds the source coordinate up.
NearestSrcCeil(x, srcN, dstN) ==
    LET c == (x * srcN + dstN - 1) \div dstN IN IF c > srcN - 1 THEN srcN - 1 ELSE c

\* The source coordinate nearest-neighbour resampling reads for x.
NearestSrc(x, srcN, dstN) == ((2 * x + 1) * srcN) \div (2 * dstN)

\* imaging.Resize(img, width, 0, imaging.NearestNeighbor) as called on lines
\* 351-356: the height keeps the aspect ratio, the result is an *image.NRGBA.
Resize(im, width) ==
    LET dstW == width
        dstH == Max2(1, (2 * dstW * im.H + im.W) \div (2 * im.W))
    IN [type |-> "NRGBA", W |-> dstW, H |-> dstH,
        Pix |-> [k \in 1..(dstW * dstH) |->
                    LET x == (k - 1) % dstW
                        y == (k - 1) \div dstW
                    IN ImagingToNRGBA(At(im, PixPos(im.W, NearestSrc(x, im.W, dstW),
                                                     NearestSrc(y, im.H, dstH))))],
        Palette |-> <<>>, id |-> im.id]

\* draw.Draw onto an *image.Paletted: each pixel becomes the index of the
\* first table entry with the least sum of squared channel differences.
SqDiff(x, y) ==
    LET d == IF x >= y THEN x - y ELSE y - x
        h == d \div 2
    IN IF d % 2 = 0 THEN h * h ELSE h * h + h

DiffSum(p, q) ==
    [lo |-> SqDiff(p.r, q.r) + SqDiff(p.g, q.g), hi |-> SqDiff(p.b, q.b) + SqDiff(p.a, q.a)]

SumLess(s, t) == (s.lo - t.lo) < (t.hi - s.hi)

\* The loop keeps the first entry whose sum no other entry undercuts.
ClosestIndex(pal, c) ==
    LET p == ColorRGBA(c)
        sum == [k \in 1..Len(pal) |-> DiffSum(p, ColorRGBA(pal[k]))]
    IN Min({k \in 1..Len(pal) : \A j \in 1..Len(pal) : ~SumLess(sum[j], sum[k])}) - 1

\* image.NewPaletted(img.Bounds(), palette) followed by copyImage(pi, img)
\* (lines 362-364).
copyImage(pal, src) ==
    [type |-> "Paletted", W |-> src.W, H |-> src.H,
     Pix |-> [k \in 1..(src.W * src.H) |-> ClosestIndex(pal, At(src, k))],
     Palette |-> pal, id |-> src.id]

\* A post-processing that returns what the resampler gives it.
postProcImageResized(im) ==
    LET r == recolor(im) IN
    IF upscale = 1 THEN r ELSE Resize(r, r.W * upscale)

\* A post-processing that is applied to its own result once more.
postProcImageTwice(im) ==
    LET post(x) ==
            LET r == recolor(x) IN
            IF upscale = 1 THEN r
            ELSE LET pal == IF r.type = "Paletted" THEN r.Palette ELSE <<>>
                     rs == Resize(r, r.W * upscale)
                 IN IF Len(pal) = 0 THEN rs ELSE copyImage(pal, rs)
    IN post(post(im))

\* postProcImage (lines 339-365)
postProcImage(im) ==
    LET r == recolor(im) IN
    IF upscale = 1 THEN r
    ELSE LET pal == IF r.type = "Paletted" THEN r.Palette ELSE <<>>
             rs == Resize(r, r.W * upscale)
         IN IF Len(pal) = 0 THEN rs ELSE copyImage(pal, rs)

Bounds(im) == <<im.W, im.H>>

\* ------------------------------------------------------- files and inputs
\* A path is [dir, stem, ext]: filepath.Base is stem plus "." plus ext, and
\* filepath.Ext is ext ("" when the name has none).
Path(dir, stem, ext) == [dir |-> dir, stem |-> stem, ext |-> ext]

StdoutArg == Path("", "-", "")
OutDir == Path("", "outdir", "")
OutGif == Path("", "out", "gif")
OutPng == Path("", "out", "png")

InA == Path("", "a", "png")
InB == Path("", "b", "png")
InC == Path("", "c", "png")
InMissing == Path("", "missing", "png")
InD == Path("pics", "a", "jpg")
InE == Path("pics", "e", "")
InP == Path("", "p", "gif")

\* An argument with a "*" in it is a pattern; filepath.Glob gives the paths
\* that match it, none when nothing does.
GlobAB == Path("", "*", "png")
GlobNone == Path("", "none*", "png")
Glob(pattern) == IF pattern = GlobAB THEN <<InA, InB>> ELSE <<>>
InputPaths == {InA, InB, InC, InMissing}

\* What imaging.Open decodes from an input path: the pixel type, the bounds and,
\* for each pixel, the tone by which the dithering engine picks a palette index.
Decoded(path) ==
    CASE path = InA -> [ok |-> TRUE, type |-> "RGBA", W |-> 2, H |-> 1, tone |-> <<0, 1>>]
      [] path = InB -> [ok |-> TRUE, type |-> "NRGBA", W |-> 2, H |-> 1, tone |-> <<1, 2>>]
      [] path = InC -> [ok |-> TRUE, type |-> "NRGBA", W |-> 1, H |-> 1, tone |-> <<2>>]
      [] path = InD -> [ok |-> TRUE, type |-> "NRGBA", W |-> 2, H |-> 1, tone |-> <<1, 0>>]
      [] path = InE -> [ok |-> TRUE, type |-> "RGBA", W |-> 2, H |-> 1, tone |-> <<0, 0>>]
      [] path = InP -> [ok |-> TRUE, type |-> "Paletted", W |-> 2, H |-> 1, tone |-> <<0, 1>>]
      [] OTHER -> [ok |-> FALSE]

\* The colour table of an input that decodes to a paletted image.
DecodedTable(path) == IF path = InP THEN <<Indigo, SemiRed>> ELSE <<>>

\* getInputImage (lines 224-260) with no pre-dither resize: the image as it
\* was decoded, or the *image.NRGBA that imaging.Grayscale and
\* imaging.AdjustSaturation return.
getInputImage(path, idx) ==
    LET d == Decoded(path)
        adjusted == grayscale \/ saturation # 0
    IN [type |-> IF adjusted THEN "NRGBA" ELSE d.type, W |-> d.W, H |-> d.H,
        tone |-> d.tone, id |-> idx,
        table |-> IF adjusted THEN <<>> ELSE DecodedTable(path),
        gray |-> grayscale, saturated |-> saturation]

\* ------------------------------------------------------ the dithering engine
\* The engine is a library: every pixel of its result is a palette colour.
EngineIndex(tone) == tone % Len(palette)

\* d.DitherPaletted / d.DitherPalettedConfig (lines 430, 453, 525)
DitherPaletted(im) ==
    [type |-> "Paletted", W |-> im.W, H |-> im.H,
     Pix |-> [k \in 1..(im.W * im.H) |-> EngineIndex(im.tone[k])],
     Palette |-> palette, id |-> im.id]

DitherConfig(im) == [ColorModel |-> palette, Width |-> im.W, Height |-> im.H]

\* d.Dither (line 496): the generic image with palette colours as pixels
\* (a paletted input with a table of its own is copied to an *image.RGBA)
Dither(im) ==
    LET type == IF im.type = "Paletted" THEN "RGBA" ELSE im.type IN
    [type |-> type, W |-> im.W, H |-> im.H,
     Pix |-> [k \in 1..(im.W * im.H) |-> Stored(type, palette[EngineIndex(im.tone[k]) + 1])],
     Palette |-> <<>>, id |-> im.id]

\* ---------------------------------------------------------------- preProcess
\* The number of colours a GIF colour table holds.
MaxGifColors == 256

NoConfig == [ColorModel |-> <<>>, Width |-> 0, Height |-> 0]
NoAnim == [LoopCount |-> 0, Config |-> NoConfig]

IsDir(d, path) == path \in DOMAIN d /\ d[path].kind = "dir"

\* A resolution in which the extension of a literal file always wins.
ResolveFormatByExt(f, d) ==
    IF f.out = StdoutArg THEN [err |-> NoErr, fmt |-> f.format.val, dir |-> FALSE]
    ELSE IF IsDir(d, f.out) THEN [err |-> NoErr, fmt |-> f.format.val, dir |-> TRUE]
    ELSE IF f.out.ext \in {"png", "gif"} THEN [err |-> NoErr, fmt |-> f.out.ext, dir |-> FALSE]
    ELSE IF f.out.ext = "" THEN [err |-> NoErr, fmt |-> f.format.val, dir |-> FALSE]
    ELSE [err |-> Error("unsupported format", <<>>), fmt |-> "", dir |-> FALSE]

\* Lines 149-189: the output format, or an error for an unsupported extension
ResolveFormat(f, d) ==
    IF f.out = StdoutArg THEN [err |-> NoErr, fmt |-> f.format.val, dir |-> FALSE]
    ELSE IF IsDir(d, f.out) THEN [err |-> NoErr, fmt |-> f.format.val, dir |-> TRUE]
    ELSE IF ~f.format.set
    THEN IF f.out.ext \in {"png", "gif"} THEN [err |-> NoErr, fmt |-> f.out.ext, dir |-> FALSE]
         ELSE IF f.out.ext = "" THEN [err |-> NoErr, fmt |-> "png", dir |-> FALSE]
         ELSE [err |-> Error("unsupported format", <<>>), fmt |-> "", dir |-> FALSE]
    ELSE [err |-> NoErr, fmt |-> f.format.val, dir |-> FALSE]

\* A recolor palette of any length is let through.
RecolorLengthAny(f) == TRUE

\* Lines 121-123: the recolor palette, when given, is as long as the palette.
RecolorLengthOk(f) == f.recolor = <<>> \/ Len(f.recolor) = Len(f.palette)

\* Any number of inputs is let through.
MultipleInputsAny(n, fmt, dir) == TRUE

\* Line 193: several inputs need the gif format or a directory target.
MultipleInputsOk(n, fmt, dir) == ~(n > 1 /\ (fmt # "gif" /\ ~dir))

\* A limit that lets one colour too many through.
GifPaletteTooLargeByTwo(fmt, n) == fmt = "gif" /\ n > MaxGifColors + 1

\* Line 197: the gif format holds at most 256 colours.
GifPaletteTooLarge(fmt, n) == fmt = "gif" /\ n > MaxGifColors

\* parsePercentArg(arg, false) (lines 30-52): the text is empty, a percentage
\* "n%" or a decimal of n hundredths; the value is in percent.
parsePercentArg(arg) == IF arg.kind = "" THEN 0 ELSE arg.n

\* Lines 94-106: the inputs, every pattern replaced by the paths it matches.
RECURSIVE ExpandInputs(_)
ExpandInputs(in) ==
    IF in = <<>> THEN <<>>
    ELSE (IF Head(in) \in {GlobAB, GlobNone} THEN Glob(Head(in)) ELSE <<Head(in)>>)
             \o ExpandInputs(Tail(in))

\* Lines 130-139: no colour of the palette has differing r, g and b.
PaletteIsGray(pal) ==
    \A k \in 1..Len(pal) :
        LET c == ColorRGBA(pal[k]) IN c.r = c.g /\ c.g = c.b

\* grayscale after preProcess: line 80 sets it for a saturation of -100 or
\* less, then line 129 sets it anew and lines 130-139 clear it for a
\* palette with a colour in it when the flag is not given.
GrayscaleOf(f) ==
    LET bySaturation == parsePercentArg(f.saturation) <= -100
        anew == TRUE
    IN IF ~f.grayscale /\ ~PaletteIsGray(f.palette) THEN FALSE ELSE anew

\* saturation after preProcess (lines 75-82)
SaturationOf(f) ==
    LET v == parsePercentArg(f.saturation) IN IF v <= -100 THEN 0 ELSE v

Compressions == {"default", "no", "speed", "size"}

\* The first check of preProcess that fails (lines 112-214), or NoErr
PreProcessError(f, d) ==
    LET res == ResolveFormat(f, d) IN
    IF Len(f.palette) < 2 THEN Error("the palette must have at least two colors", <<>>)
    ELSE IF ~RecolorLengthOk(f)
    THEN Error("recolor palette must have the same number of colors as the initial palette", <<>>)
    ELSE IF f.format.val \notin {"png", "gif"} THEN Error("unsupported format", <<>>)
    ELSE IF res.err # NoErr THEN res.err
    ELSE IF ~MultipleInputsOk(Len(ExpandInputs(f.in)), res.fmt, res.dir)
    THEN Error("multiple input images are only allowed if the output format is GIF, or an existing directory", <<>>)
    ELSE IF GifPaletteTooLarge(res.fmt, Len(f.palette))
    THEN Error("the GIF format only supports 256 colors or less in the palette", <<>>)
    ELSE IF f.compression \notin Compressions THEN Error("invalid compression type", <<>>)
    ELSE NoErr

PreProcess ==
    /\ pc = "preProcess"
    /\ LET e == PreProcessError(flags, disk).msg
           res == ResolveFormat(flags, disk)
           up == IF IntOfUint(flags.upscale) = 0 THEN 1 ELSE IntOfUint(flags.upscale)
       IN IF e # NoErr.msg
          THEN /\ err' = Error(e, <<>>)
               /\ pc' = "done"
               /\ UNCHANGED globals
          ELSE /\ inputImages' = ExpandInputs(flags.in)
               /\ palette' = flags.palette
               /\ recolorPalette' = flags.recolor
               /\ grayscale' = GrayscaleOf(flags)
               /\ saturation' = SaturationOf(flags)
               /\ compLevel' = flags.compression
               /\ ditherer' = ditherer
               /\ outFormat' = res.fmt
               /\ outIsDir' = res.dir
               /\ outFileFlags' = IF flags.noOverwrite THEN "O_EXCL" ELSE "O_TRUNC"
               /\ upscale' = up
               /\ postProcNeeded' = (Len(flags.recolor) # 0 \/ up > 1)
               /\ pc' = IF flags.command = "edm" THEN "edm" ELSE "processImages"
               /\ err' = NoErr
    /\ UNCHANGED <<flags, isAnimGIF, frames, delays, animGIF, i, img, file, disk, stdout, log>>

\* ------------------------------------------------------------- processImages
\* A failure inside the loop that breaks out of it instead of returning.
FailBreak(e) ==
    /\ err' = e
    /\ pc' = IF isAnimGIF /\ pc \in {"loop", "anim"} THEN "animOpen" ELSE "done"

\* return <error>: the run ends with the error
Fail(e) ==
    /\ err' = e
    /\ pc' = "done"

\* A mode selection that forgets the directory target.
IsAnimGIFAnyTarget == Len(inputImages) > 1 /\ outFormat = "gif"

\* Line 376
IsAnimGIF == Len(inputImages) > 1 /\ outFormat = "gif" /\ ~outIsDir

\* An fps check that never fires, leaving the flag's zero value in use.
FpsNotSetIgnored == FALSE

\* Line 386: !globalIsSet("fps", c)
FpsNotSet == ~flags.fps.set

FpsError == Error("output will be animated GIF, but --fps flag is not set", <<>>)


\* ------------------------------------------------------------------- edm
\* A string is the sequence of its characters.
Uppers == <<"A", "B", "C", "D", "E", "F", "G", "H", "I", "J", "K", "L", "M", "N", "O", "P", "Q", "R", "S", "T", "U", "V", "W", "X", "Y", "Z">>
Lowers == <<"a", "b", "c", "d", "e", "f", "g", "h", "i", "j", "k", "l", "m", "n", "o", "p", "q", "r", "s", "t", "u", "v", "w", "x", "y", "z">>

\* strings.ToLower and strings.ToUpper
LowerOf(c) == IF \E k \in 1..Len(Uppers) : Uppers[k] = c
              THEN Lowers[CHOOSE k \in 1..Len(Uppers) : Uppers[k] = c] ELSE c
UpperOf(c) == IF \E k \in 1..Len(Lowers) : Lowers[k] = c
              THEN Uppers[CHOOSE k \in 1..Len(Lowers) : Lowers[k] = c] ELSE c
ToLower(str) == [k \in 1..Len(str) |-> LowerOf(str[k])]
ToUpper(str) == [k \in 1..Len(str) |-> UpperOf(str[k])]

\* strings.ReplaceAll for a character old and a character new
ReplaceAll(str, old, new) == [k \in 1..Len(str) |-> IF str[k] = old THEN new ELSE str[k]]

\* edmName (lines 435-449): the keys and the matrix of the library each names
edmNamePairs ==
    {
        <<<<"s", "i", "m", "p", "l", "e", "2", "d">>, "Simple2D">>,
        <<<<"f", "l", "o", "y", "d", "s", "t", "e", "i", "n", "b", "e", "r", "g">>, "FloydSteinberg">>,
        <<<<"f", "a", "l", "s", "e", "f", "l", "o", "y", "d", "s", "t", "e", "i", "n", "b", "e", "r", "g">>, "FalseFloydSteinberg">>,
        <<<<"j", "a", "r", "v", "i", "s", "j", "u", "d", "i", "c", "e", "n", "i", "n", "k", "e">>, "JarvisJudiceNinke">>,
        <<<<"a", "t", "k", "i", "n", "s", "o", "n">>, "Atkinson">>,
        <<<<"s", "t", "u", "c", "k", "i">>, "Stucki">>,
        <<<<"b", "u", "r", "k", "e", "s">>, "Burkes">>,
        <<<<"s", "i", "e", "r", "r", "a">>, "Sierra">>,
        <<<<"s", "i", "e", "r", "r", "a", "3">>, "Sierra3">>,
        <<<<"t", "w", "o", "r", "o", "w", "s", "i", "e", "r", "r", "a">>, "TwoRowSierra">>,
        <<<<"s", "i", "e", "r", "r", "a", "l", "i", "t", "e">>, "SierraLite">>,
        <<<<"s", "i", "e", "r", "r", "a", "2", "_", "4", "a">>, "Sierra2_4A">>,
        <<<<"s", "t", "e", "v", "e", "n", "p", "i", "g", "e", "o", "n">>, "StevenPigeon">>
    }

edmName ==
    [key \in {p[1] : p \in edmNamePairs} |-> (CHOOSE p \in edmNamePairs : p[1] = key)[2]]

\* The matrix names the manual lists (MANPAGE.md, lines 203-213), aliases
\* included.
DocumentedNames == {
    <<"S", "i", "m", "p", "l", "e", "2", "D">>,
    <<"F", "l", "o", "y", "d", "S", "t", "e", "i", "n", "b", "e", "r", "g">>,
    <<"F", "a", "l", "s", "e", "F", "l", "o", "y", "d", "S", "t", "e", "i", "n", "b", "e", "r", "g">>,
    <<"J", "a", "r", "v", "i", "s", "J", "u", "d", "i", "c", "e", "N", "i", "n", "k", "e">>,
    <<"A", "t", "k", "i", "n", "s", "o", "n">>, <<"S", "t", "u", "c", "k", "i">>,
    <<"B", "u", "r", "k", "e", "s">>, <<"S", "i", "e", "r", "r", "a">>,
    <<"S", "i", "e", "r", "r", "a", "3">>,
    <<"T", "w", "o", "R", "o", "w", "S", "i", "e", "r", "r", "a">>,
    <<"S", "i", "e", "r", "r", "a", "2">>,
    <<"S", "i", "e", "r", "r", "a", "L", "i", "t", "e">>,
    <<"S", "i", "e", "r", "r", "a", "2", "_", "4", "A">>,
    <<"S", "t", "e", "v", "e", "n", "P", "i", "g", "e", "o", "n">>
    }

\* Arguments that are JSON text, and what json.Unmarshal makes of them.
JsonTexts ==
    {<<<<"[", "[", "1", ",", "2", "]", "]">>, <<<<1, 2>>>>>>,
     <<<<"[", "]">>, <<>>>>,
     <<<<"[", "[", "]", "]">>, <<<<>>>>>>,
     <<<<"[", "[", "1", "]", ",", "[", "1", ",", "2", "]", "]">>, <<<<1>>, <<1, 2>>>>>>}

\* The files ioutil.ReadFile can read, and the matrix their JSON holds.
MatrixFiles == {<<<<"m", ".", "j", "s", "o", "n">>, <<<<7, 5>>, <<3, 1>>>>>>}

NoMatrixMsg == "couldn't process argument as matrix name, inline JSON, or path to accessible JSON file"

\* Lines 461-474: the argument as inline JSON, else as a path to JSON.
CustomMatrix(arg) ==
    IF \E t \in JsonTexts : t[1] = arg
    THEN [ok |-> TRUE, matrix |-> (CHOOSE t \in JsonTexts : t[1] = arg)[2]]
    ELSE IF \E t \in MatrixFiles : t[1] = arg
    THEN [ok |-> TRUE, matrix |-> (CHOOSE t \in MatrixFiles : t[1] = arg)[2]]
    ELSE [ok |-> FALSE]

\* Lines 476-489: the first check a custom matrix fails, or NoErr
MatrixError(matrix) ==
    IF Len(matrix) = 0 THEN Error("matrix is empty", <<>>)
    ELSE IF Len(matrix[1]) = 0 THEN Error("matrix has empty row", <<>>)
    ELSE IF \E k \in 1..Len(matrix) : Len(matrix[k]) # Len(matrix[1])
    THEN Error("matrix is not rectangular, all rows must be the same length", <<>>)
    ELSE NoErr

\* The key the argument is looked up with (line 460)
EdmKey(arg) == ReplaceAll(ToLower(arg), "-", "_")

\* edm (lines 451-503), up to its call of processImages
Edm ==
    /\ pc = "edm"
    /\ IF Len(flags.args) # 1
       THEN /\ Fail(Error("edm only accepts one argument", <<>>))
            /\ UNCHANGED ditherer
       ELSE LET arg == flags.args[1]
                key == EdmKey(arg)
                custom == CustomMatrix(arg)
            IN IF key \in DOMAIN edmName
               THEN /\ ditherer' = [Matrix |-> [name |-> edmName[key], rows |-> <<>>],
                                    Serpentine |-> flags.serpentine]
                    /\ pc' = "processImages"
                    /\ err' = NoErr
               ELSE IF ~custom.ok
               THEN /\ Fail(Error(NoMatrixMsg, <<>>))
                    /\ UNCHANGED ditherer
               ELSE IF MatrixError(custom.matrix) # NoErr
               THEN /\ Fail(MatrixError(custom.matrix))
                    /\ UNCHANGED ditherer
               ELSE /\ ditherer' = [Matrix |-> [name |-> "custom", rows |-> custom.matrix],
                                    Serpentine |-> flags.serpentine]
                    /\ pc' = "processImages"
                    /\ err' = NoErr
    /\ UNCHANGED <<flags, palette, recolorPalette, grayscale, saturation, inputImages,
                   outFormat, outIsDir, compLevel, outFileFlags, upscale, postProcNeeded,
                   isAnimGIF, frames, delays, animGIF, i, img, file, disk, stdout, log>>

\* Lines 376-415: mode selection, the fps check, delays and loop count.
Setup ==
    /\ pc = "processImages"
    /\ LET anim == IsAnimGIF
           n == Len(inputImages)
       IN /\ isAnimGIF' = anim
          /\ IF anim /\ FpsNotSet
             THEN /\ Fail(FpsError)
                  /\ frames' = [k \in 1..n |-> NoImg]
                  /\ UNCHANGED <<delays, animGIF>>
             ELSE IF anim
             THEN /\ frames' = [k \in 1..n |-> NoImg]
                  /\ \E d \in DelayValues(flags.fps.val) : delays' = [k \in 1..n |-> d]
                  /\ animGIF' = [LoopCount |-> LoopCountOf(flags.loop), Config |-> NoConfig]
                  /\ pc' = "loop"
                  /\ err' = NoErr
             ELSE /\ UNCHANGED <<frames, delays, animGIF>>
                  /\ pc' = "loop"
                  /\ err' = NoErr
    /\ i' = 0
    /\ UNCHANGED <<flags, globals, img, file, disk, stdout, log>>

\* Lines 419-424: the next input is loaded.
LoadInput ==
    /\ pc = "loop"
    /\ i < Len(inputImages)
    /\ LET path == inputImages[i + 1] IN
       /\ log' = Append(log, <<"load", i>>)
       /\ IF ~Decoded(path).ok
          THEN /\ Fail(Error("error loading", <<path>>))
               /\ UNCHANGED img
          ELSE /\ img' = getInputImage(path, i)
               /\ pc' = IF isAnimGIF THEN "anim" ELSE "open"
               /\ err' = NoErr
    /\ UNCHANGED <<flags, globals, isAnimGIF, frames, delays, animGIF, i, file, disk, stdout>>

\* A configuration that is always the engine's.
FrameConfigOfEngine(first, f0) == DitherConfig(first)

\* Lines 433-442: the configuration of the animation, from the first input
\* and its post-processed frame.
FrameConfig(first, f0) ==
    IF Len(recolorPalette) = 0 THEN DitherConfig(first)
    ELSE [ColorModel |-> recolorPalette, Width |-> f0.W, Height |-> f0.H]

\* Lines 427-443: frame 0 and the shared image configuration.
AnimFrame0 ==
    /\ pc = "anim"
    /\ i = 0
    /\ LET f0 == postProcImage(DitherPaletted(img)) IN
       /\ frames' = [frames EXCEPT ![1] = f0]
       /\ animGIF' = [animGIF EXCEPT !.Config = FrameConfig(img, f0)]
    /\ log' = log \o <<<<"dither", i>>, <<"postProc", i>>>>
    /\ i' = i + 1
    /\ pc' = "loop"
    /\ UNCHANGED <<flags, globals, err, isAnimGIF, delays, img, file, disk, stdout>>

\* The error of lines 448-451 and 458-461 names the input and the first input.
SizeMsg == "isn't the same size, all sizes must match to create an animated GIF"
SizeError == Error(SizeMsg, <<inputImages[i + 1], inputImages[1]>>)

\* Line 446: the check made before dithering when nothing is upscaled
SizeCheckBefore == upscale = 1 /\ Bounds(img) # Bounds(frames[1])

\* A second check that is left out.
SizeCheckAfterSkipped(f) == FALSE

\* Line 457: the check made after post-processing when frames are upscaled
SizeCheckAfter(f) == upscale # 1 /\ Bounds(f) # Bounds(frames[1])

\* Lines 445-463: a later frame, with the bounds check before or after it.
AnimLaterFrame ==
    /\ pc = "anim"
    /\ i > 0
    /\ IF SizeCheckBefore
       THEN /\ Fail(SizeError)
            /\ UNCHANGED <<frames, i, log>>
       ELSE LET f == postProcImage(DitherPaletted(img)) IN
            /\ frames' = [frames EXCEPT ![i + 1] = f]
            /\ log' = log \o <<<<"dither", i>>, <<"postProc", i>>>>
            /\ IF SizeCheckAfter(f)
               THEN /\ Fail(SizeError)
                    /\ UNCHANGED i
               ELSE /\ i' = i + 1
                    /\ pc' = "loop"
                    /\ err' = NoErr
    /\ UNCHANGED <<flags, globals, isAnimGIF, delays, animGIF, img, file, disk, stdout>>

\* filepath.Join(dir, name): the path of the file called name inside dir.
Join(dir, stem, ext) ==
    Path(IF dir.dir = "" THEN dir.stem ELSE dir.dir \o "/" \o dir.stem, stem, ext)

\* A derived name that keeps the input's directory and extension.
OutputPathOfInput(inputPath) ==
    IF outIsDir
    THEN Join(flags.out, inputPath.dir \o inputPath.stem \o "." \o inputPath.ext, outFormat)
    ELSE flags.out

\* The path an independent input is written to (lines 477-487).
OutputPath(inputPath) ==
    IF outIsDir THEN Join(flags.out, inputPath.stem, outFormat) ELSE flags.out

\* An open that never looks at O_EXCL.
OpenFailsOnDirOnly(path) == IsDir(disk, path)

\* os.OpenFile(path, outFileFlags, 0644): it fails on a directory, and with
\* O_EXCL on a path that exists; otherwise the file is created or truncated.
OpenFails(path) ==
    \/ IsDir(disk, path)
    \/ outFileFlags = "O_EXCL" /\ path \in DOMAIN disk

Opened(path) == [q \in DOMAIN disk \cup {path} |-> IF q = path THEN [kind |-> "empty"] ELSE disk[q]]

\* The encoder's output lands in the open file, or on the standard output.
WriteOut(content) ==
    IF file = StdoutArg
    THEN /\ stdout' = Append(stdout, content)
         /\ UNCHANGED disk
    ELSE /\ disk' = [disk EXCEPT ![file] = content]
         /\ UNCHANGED stdout

\* An open failure that is recorded while the run goes on to encode.
OpenFailureIgnored(path) ==
    /\ err' = Error("open failed", <<path>>)
    /\ pc' = IF pc = "open" THEN "encode" ELSE "animEncode"
    /\ log' = Append(log, <<"openFailed", path>>)
    /\ file' = path
    /\ UNCHANGED disk

\* Lines 489-492 and 567-570: the open failed, the run returns the error.
OpenFailure(path) ==
    /\ Fail(Error("open failed", <<path>>))
    /\ log' = Append(log, <<"openFailed", path>>)
    /\ UNCHANGED <<file, disk>>

\* Lines 470-493: the destination of an independent input is opened.
OpenOutput ==
    /\ pc = "open"
    /\ IF flags.out = StdoutArg
       THEN /\ file' = StdoutArg
            /\ pc' = "encode"
            /\ UNCHANGED <<disk, log, err>>
       ELSE LET path == OutputPath(inputImages[i + 1]) IN
            IF OpenFails(path)
            THEN OpenFailure(path)
            ELSE /\ file' = path
                 /\ disk' = Opened(path)
                 /\ log' = Append(log, <<"open", path>>)
                 /\ pc' = "encode"
                 /\ err' = NoErr
    /\ UNCHANGED <<flags, globals, isAnimGIF, frames, delays, animGIF, i, img, stdout>>

\* Lines 495-502: PNG output.
EncodePNG ==
    /\ pc = "encode"
    /\ outFormat = "png"
    /\ LET out == postProcImage(Dither(img)) IN
       /\ img' = out
       /\ WriteOut([kind |-> "file", fmt |-> "png", image |-> out])
    /\ log' = log \o <<<<"dither", i>>, <<"postProc", i>>, <<"encode", i>>>>
    /\ i' = i + 1
    /\ pc' = "loop"
    /\ UNCHANGED <<flags, globals, err, isAnimGIF, frames, delays, animGIF, file>>

\* gif.Encode leaves an image alone that is an *image.Paletted with a table of
\* at most NumColors entries (NumColors outside 1..256 counts as 256): neither
\* the quantizer nor the drawer is called for it.
GifKeeps(im, numColors) ==
    LET n == IF numColors < 1 \/ numColors > 256 THEN 256 ELSE numColors IN
    im.type = "Paletted" /\ Len(im.table) <= n

\* The loaded paletted image as the encoder sees it.
AsLoaded(im) ==
    [type |-> "Paletted", W |-> im.W, H |-> im.H, Pix |-> im.tone, Palette |-> im.table,
     id |-> im.id]

\* Lines 508-518: static GIF, the encoder calls the ditherer, as quantizer
\* and as drawer, when it has to make a paletted image of the input.
EncodeGIFDirect ==
    /\ pc = "encode"
    /\ outFormat # "png"
    /\ ~postProcNeeded
    /\ IF GifKeeps(img, Len(palette))
       THEN /\ WriteOut([kind |-> "file", fmt |-> "gif", image |-> AsLoaded(img),
                         quantizer |-> "ditherer", NumColors |-> Len(palette),
                         quantized |-> FALSE])
            /\ log' = Append(log, <<"encode", i>>)
       ELSE /\ WriteOut([kind |-> "file", fmt |-> "gif", image |-> DitherPaletted(img),
                         quantizer |-> "ditherer", NumColors |-> Len(palette),
                         quantized |-> TRUE])
            /\ log' = log \o <<<<"dither", i>>, <<"encode", i>>>>
    /\ i' = i + 1
    /\ pc' = "loop"
    /\ UNCHANGED <<flags, globals, err, isAnimGIF, frames, delays, animGIF, img, file>>

\* A choice of quantizer that is always the ditherer.
QuantizerOfDitherer == "ditherer"

\* Lines 527-532: the quantizer handed to gif.Encode.
Quantizer == IF Len(recolorPalette) = 0 THEN "ditherer" ELSE "fakeQuantizer"

\* Quantize: fakeQuantizer returns the palette it holds, whatever the image,
\* and so does the ditherer.
Quantize(q) == IF q = "fakeQuantizer" THEN recolorPalette ELSE palette

\* gif.Encode(file, im, &gif.Options{NumColors, Quantizer}) (lines 533-539) on
\* a paletted image: NumColors outside 1..256 counts as 256, and the quantizer
\* is called only for an image whose table is longer than NumColors.
GifEncode(im, numColors, q) ==
    LET n == IF numColors < 1 \/ numColors > MaxGifColors THEN MaxGifColors ELSE numColors
        fits == Len(im.Palette) <= n
    IN [kind |-> "file", fmt |-> "gif",
        image |-> IF fits THEN im ELSE copyImage(Quantize(q), im),
        quantizer |-> q, NumColors |-> numColors, quantized |-> ~fits]

\* Lines 519-540: static GIF, dithered and post-processed first.
EncodeGIFPost ==
    /\ pc = "encode"
    /\ outFormat # "png"
    /\ postProcNeeded
    /\ LET out == postProcImage(DitherPaletted(img)) IN
       /\ img' = out
       /\ WriteOut(GifEncode(out, Len(recolorPalette), Quantizer))
    /\ log' = log \o <<<<"dither", i>>, <<"postProc", i>>, <<"encode", i>>>>
    /\ i' = i + 1
    /\ pc' = "loop"
    /\ UNCHANGED <<flags, globals, err, isAnimGIF, frames, delays, animGIF, file>>

\* A loop that stops one input early.
LoopEndEarly ==
    /\ pc = "loop"
    /\ i >= Len(inputImages) - 1
    /\ pc' = IF isAnimGIF THEN "animOpen" ELSE "done"
    /\ UNCHANGED <<flags, globals, err, isAnimGIF, frames, delays, animGIF, i, img, file,
                   disk, stdout, log>>

\* Lines 552-554: every input is written and this is not an animation.
LoopEnd ==
    /\ pc = "loop"
    /\ i = Len(inputImages)
    /\ pc' = IF isAnimGIF THEN "animOpen" ELSE "done"
    /\ UNCHANGED <<flags, globals, err, isAnimGIF, frames, delays, animGIF, i, img, file,
                   disk, stdout, log>>

\* Lines 558-572: the destination of the animation is opened.
AnimOpen ==
    /\ pc = "animOpen"
    /\ IF flags.out = StdoutArg
       THEN /\ file' = StdoutArg
            /\ pc' = "animEncode"
            /\ UNCHANGED <<disk, log, err>>
       ELSE IF OpenFails(flags.out)
       THEN OpenFailure(flags.out)
       ELSE /\ file' = flags.out
            /\ disk' = Opened(flags.out)
            /\ log' = Append(log, <<"open", flags.out>>)
            /\ pc' = "animEncode"
            /\ err' = NoErr
    /\ UNCHANGED <<flags, globals, isAnimGIF, frames, delays, animGIF, i, img, stdout>>

\* gif.EncodeAll refuses a frame that does not lie inside the configuration's
\* width and height, before anything reaches the file.
EncodeAllFails ==
    \E k \in 1..Len(frames) :
        /\ frames[k] # NoImg
        /\ frames[k].W > animGIF.Config.Width \/ frames[k].H > animGIF.Config.Height

\* Lines 574-580: gif.EncodeAll writes the whole animation.
AnimEncode ==
    /\ pc = "animEncode"
    /\ IF EncodeAllFails
       THEN /\ Fail(Error("error writing GIF", <<file>>))
            /\ log' = Append(log, <<"encodeAllFailed", Len(frames)>>)
            /\ UNCHANGED <<disk, stdout>>
       ELSE /\ WriteOut([kind |-> "animation", fmt |-> "gif", Image |-> frames,
                         Delay |-> delays, LoopCount |-> animGIF.LoopCount,
                         Config |-> animGIF.Config])
            /\ log' = Append(log, <<"encodeAll", Len(frames)>>)
            /\ pc' = "done"
            /\ UNCHANGED err
    /\ UNCHANGED <<flags, globals, isAnimGIF, frames, delays, animGIF, i, img, file>>

Next ==
    \/ PreProcess
    \/ Edm
    \/ Setup
    \/ LoadInput
    \/ AnimFrame0
    \/ AnimLaterFrame
    \/ OpenOutput
    \/ EncodePNG
    \/ EncodeGIFDirect
    \/ EncodeGIFPost
    \/ LoopEnd
    \/ AnimOpen
    \/ AnimEncode

\* ------------------------------------------------------------ command lines
RECURSIVE SeqsUpTo(_, _)
SeqsUpTo(S, n) ==
    IF n = 0 THEN {<<>>}
    ELSE LET shorter == SeqsUpTo(S, n - 1) IN
         shorter \cup {Append(q, x) : q \in {r \in shorter : Len(r) = n - 1}, x \in S}

Fps(num, den) == [num |-> num, den |-> den]
FpsUnset == [set |-> FALSE, val |-> Fps(1, 1)]
FpsSet(num, den) == [set |-> TRUE, val |-> Fps(num, den)]
FormatUnset == [set |-> FALSE, val |-> "png"]
FormatSet(v) == [set |-> TRUE, val |-> v]

Percent(kind, n) == [kind |-> kind, n |-> n]

Flags(in, pal, rec, fmt, out, now, up, fps, loop) ==
    [in |-> in, palette |-> pal, recolor |-> rec, format |-> fmt, out |-> out,
     noOverwrite |-> now, upscale |-> UintOf(0, up), fps |-> fps, loop |-> loop,
     grayscale |-> FALSE, saturation |-> Percent("", 0), compression |-> "default",
     command |-> "bayer", args |-> <<>>, serpentine |-> FALSE]

Disk0 == [q \in {OutDir} |-> [kind |-> "dir"]]
DiskOld == [q \in {OutDir, OutGif, OutPng} |-> IF q = OutDir THEN [kind |-> "dir"] ELSE [kind |-> "old"]]

\* Runs over every list of inputs, output target and format.
PipelineRuns ==
    {<<Flags(in, <<Black, White>>, rec, fmt, out, FALSE, up, FpsSet(10, 1), UintOf(0, 0)),
       Disk0>> :
        in \in SeqsUpTo(InputPaths, MaxInputs) \ {<<>>},
        rec \in {<<>>, <<Indigo, SemiRed>>},
        fmt \in {FormatUnset, FormatSet("gif")},
        out \in {StdoutArg, OutDir, OutGif, OutPng},
        up \in 1..MaxUpscale}

\* Runs without a frame rate.
NoFpsRuns ==
    {<<Flags(in, <<Black, White>>, rec, fmt, out, FALSE, up, FpsUnset, UintOf(0, 0)), Disk0>> :
        in \in {<<InA>>, <<InA, InB>>, <<InA, InMissing>>, <<InA, InB, InC>>},
        rec \in {<<>>, <<Indigo, SemiRed>>},
        fmt \in {FormatUnset, FormatSet("gif")},
        out \in {StdoutArg, OutDir, OutGif, OutPng},
        up \in 1..MaxUpscale}

\* Runs over frame rates and loop counts.
FpsValues ==
    {Fps(100, 1), Fps(24, 1), Fps(1, 1), Fps(10, 1), Fps(8, 1), Fps(200, 1),
     Fps(1000, 1), Fps(1, 2), Fps(3, 1), Fps(1, 2 ^ 24), Fps(1, 2 ^ 25)}

LoopValues ==
    {UintOf(0, 0), UintOf(0, 1), UintOf(0, 2), UintOf(0, 5), UintOf(1, 0),
     UintOf(Limb \div 2 - 1, Limb - 1), UintOf(Limb \div 2, 0), UintOf(Limb \div 2, 1),
     UintOf(Limb - 1, Limb - 1)}

AnimRuns ==
    {<<Flags(in, <<Black, White>>, <<>>, FormatUnset, out, FALSE, 1, FpsSet(f.num, f.den), loop),
       Disk0>> :
        in \in {<<InA, InB>>, <<InA, InB, InA>>},
        out \in {OutGif, StdoutArg},
        f \in FpsValues,
        loop \in LoopValues}

\* Runs over palettes and recolor palettes, duplicates and alpha included.
PaletteColors == {Black, Red}
RecolorColors == {Black, Red, SemiRed}
Palettes == {q \in SeqsUpTo(PaletteColors, MaxPaletteLen) : Len(q) >= 2}
Recolors(n) == {<<>>} \cup {q \in SeqsUpTo(RecolorColors, MaxPaletteLen) : Len(q) = n}

PostRuns ==
    {<<Flags(<<in>>, pr[1], pr[2], FormatUnset, out, FALSE, up, FpsUnset, UintOf(0, 0)), Disk0>> :
        in \in {InA, InB},
        pr \in {x \in Palettes \X UNION {Recolors(Len(q)) : q \in Palettes} :
                   Len(x[2]) \in {0, Len(x[1])}},
        out \in {OutGif, OutPng},
        up \in 0..MaxUpscale}

\* Runs that meet files which exist, and command lines preProcess rejects.
OtherRuns ==
    {<<Flags(<<InA>>, <<Black, White>>, <<>>, fmt, out, now, 1, FpsUnset, UintOf(0, 0)), DiskOld>> :
        fmt \in {FormatUnset, FormatSet("gif"), FormatSet("jpg")},
        out \in {OutGif, OutPng, OutDir, Path("", "out", "jpg"), Path("", "out", "")},
        now \in BOOLEAN}
    \cup {<<Flags(<<InA, InB>>, <<Black, White>>, <<>>, FormatUnset, OutGif, now, 1,
                 FpsSet(10, 1), UintOf(0, 0)), DiskOld>> : now \in BOOLEAN}
    \cup {<<Flags(<<InA>>, <<Black>>, <<>>, FormatUnset, OutPng, FALSE, 1, FpsUnset,
                 UintOf(0, 0)), Disk0>>}

\* Runs into an existing directory, over inputs that lie in a directory of
\* their own, share a base name or have no extension, with and without files
\* that are already there.
DiskDir ==
    [q \in {OutDir, Path("outdir", "b", "png"), Path("outdir", "a", "gif")} |->
        IF q = OutDir THEN [kind |-> "dir"] ELSE [kind |-> "old"]]

DirRuns ==
    {<<Flags(in, <<Black, White>>, <<>>, fmt, OutDir, now, 1, FpsUnset, UintOf(0, 0)), d>> :
        in \in {q \in SeqsUpTo({InA, InB, InD, InE}, MaxInputs) : Len(q) \in 1..2},
        fmt \in {FormatUnset, FormatSet("gif")},
        now \in BOOLEAN,
        d \in {Disk0, DiskDir}}

\* Runs with a recolor palette shorter or longer than the palette.
MismatchRuns ==
    {<<Flags(<<InA>>, <<Black, White>>, rec, FormatUnset, out, FALSE, up, FpsUnset,
             UintOf(0, 0)), Disk0>> :
        rec \in {<<Indigo>>, <<Indigo, SemiRed, Black>>},
        out \in {OutGif, OutPng},
        up \in 1..2}

\* Runs with a palette at and just above the limit of the gif format.
BigPalette(n) == [k \in 1..n |-> NRGBA((k - 1) % 256, (k - 1) \div 256, 0, 255)]
BigRecolor(n) == [k \in 1..n |-> NRGBA(0, (k - 1) \div 256, (k - 1) % 256, 255)]

BigRuns ==
    {<<Flags(in, BigPalette(n), IF rec THEN BigRecolor(n) ELSE <<>>, fmt, out, FALSE, up,
             FpsSet(10, 1), UintOf(0, 0)), Disk0>> :
        in \in {<<InA>>, <<InA, InB>>},
        n \in {MaxGifColors, MaxGifColors + 1},
        rec \in BOOLEAN,
        fmt \in {FormatUnset, FormatSet("gif")},
        out \in {OutGif, OutPng},
        up \in 1..2}

\* Runs over the grayscale, saturation and compression flags, gray and
\* coloured palettes, and an input that decodes to a paletted image.
Saturations ==
    {Percent("", 0), Percent("percent", -100), Percent("decimal", -100),
     Percent("percent", -150), Percent("percent", -50), Percent("decimal", 20)}

FlagRuns ==
    {<<[Flags(in, pal, <<>>, FormatUnset, out, FALSE, 1, FpsSet(10, 1), UintOf(0, 0))
            EXCEPT !.grayscale = g, !.saturation = sat, !.compression = comp], Disk0>> :
        in \in {<<InA>>, <<InP>>, <<InA, InP>>},
        pal \in {<<Black, White>>, <<Indigo, White>>},
        out \in {OutGif, OutPng},
        g \in BOOLEAN,
        sat \in Saturations,
        comp \in {"default", "size", "bogus"}}

\* Runs whose inputs are patterns, with and without files that match.
GlobRuns ==
    {<<Flags(in, <<Black, White>>, <<>>, FormatUnset, out, FALSE, 1, FpsSet(10, 1),
             UintOf(0, 0)), Disk0>> :
        in \in {<<GlobNone>>, <<GlobAB>>, <<GlobNone, InA>>, <<GlobAB, InC>>,
                <<GlobNone, GlobNone>>},
        out \in {StdoutArg, OutDir, OutGif, OutPng}}

\* Static GIF runs with an upscale flag above the largest int.
WrapRuns ==
    {<<[Flags(<<in>>, <<Black, White>>, <<>>, FormatUnset, OutGif, FALSE, 1, FpsUnset,
              UintOf(0, 0)) EXCEPT !.upscale = up], Disk0>> :
        in \in {InA, InB, InP},
        up \in {UintOf(Limb \div 2, 0), UintOf(Limb \div 2, 1), UintOf(Limb - 1, Limb - 1)}}

\* Runs of the edm command: every documented name as it is written, in
\* lower and in upper case and with a hyphen for the underscore, custom
\* matrices as JSON and as a file, and argument lists of the wrong length.
EdmArgs ==
    UNION {{<<d>>, <<ToLower(d)>>, <<ToUpper(d)>>, <<ReplaceAll(d, "_", "-")>>} :
              d \in DocumentedNames}
        \cup {<<t[1]>> : t \in JsonTexts \cup MatrixFiles}
        \cup {<<>>,
               <<<<"a", "t", "k", "i", "n", "s", "o", "n">>,
                 <<"s", "t", "u", "c", "k", "i">>>>,
               <<<<"f", "l", "o", "y", "d", "-", "s", "t", "e", "i", "n", "b", "e", "r", "g">>>>}

EdmRuns ==
    {<<[Flags(<<InA>>, <<Black, White>>, <<>>, FormatUnset, OutPng, FALSE, 1, FpsUnset,
              UintOf(0, 0)) EXCEPT !.command = "edm", !.args = a, !.serpentine = sp], Disk0>> :
        a \in EdmArgs,
        sp \in BOOLEAN}

Runs ==
    EdmRuns \cup PipelineRuns \cup NoFpsRuns \cup AnimRuns \cup PostRuns \cup OtherRuns \cup DirRuns
        \cup MismatchRuns \cup BigRuns \cup FlagRuns \cup GlobRuns \cup WrapRuns

Init ==
    /\ \E run \in Runs :
        /\ flags = run[1]
        /\ disk = run[2]
    /\ palette = <<>>
    /\ recolorPalette = <<>>
    /\ grayscale = FALSE
    /\ saturation = 0
    /\ compLevel = "default"
    /\ ditherer = NoDitherer
    /\ inputImages = <<>>
    /\ outFormat = ""
    /\ outIsDir = FALSE
    /\ outFileFlags = "O_TRUNC"
    /\ upscale = 0
    /\ postProcNeeded = FALSE
    /\ pc = "preProcess"
    /\ err = NoErr
    /\ isAnimGIF = FALSE
    /\ frames = <<>>
    /\ delays = <<>>
    /\ animGIF = NoAnim
    /\ i = 0
    /\ img = NoImg
    /\ file = NoFile
    /\ stdout = <<>>
    /\ log = <<>>

Spec == Init /\ [][Next]_vars

\* ------------------------------------------------------------ properties
Events(kind) == {k \in 1..Len(log) : log[k][1] = kind}
DiskUntouched == \A q \in DOMAIN disk : disk[q].kind \in {"dir", "old"}
TargetIsDir == flags.out # StdoutArg /\ IsDir(disk, flags.out)
SetupDone == pc \notin {"preProcess", "edm", "processImages"}
Succeeded == pc = "done" /\ err = NoErr
AllFramesAlike == \A k \in 1..Len(frames) : frames[k] # NoImg /\ Bounds(frames[k]) = Bounds(frames[1])

\* The frame the pipeline makes of input k (0-based) in animated mode.
FrameOf(k) == postProcImage(DitherPaletted(getInputImage(inputImages[k + 1], k)))

\* What the run wrote to its single destination.
Written == IF flags.out = StdoutArg THEN stdout[1] ELSE disk[flags.out]

\* C1: processImages runs in animated mode exactly when there are several
\* inputs, the resolved format is gif and the target is no existing directory;
\* otherwise no animation buffer is built or encoded and every input is
\* encoded on its own.
C1_ModeSelection ==
    SetupDone =>
        /\ isAnimGIF <=> (Len(inputImages) > 1 /\ outFormat = "gif" /\ ~TargetIsDir)
        /\ ~isAnimGIF =>
              /\ frames = <<>>
              /\ delays = <<>>
              /\ Events("encodeAll") = {}
              /\ Succeeded => Cardinality(Events("encode")) = Len(inputImages)
        /\ isAnimGIF => Events("encode") = {}

C1_Witness ==
    /\ Succeeded
    /\ ~isAnimGIF
    /\ Len(inputImages) > 1
    /\ outFormat = "gif"

\* C2: in animated mode the loop passes a later input only when its
\* post-processed bounds equal those of frame 0, whatever the upscale factor;
\* the first input whose bounds differ ends the run with an error naming it and
\* the first input, nothing is encoded, and an encode only ever sees frames of
\* identical bounds.
C2_BoundsChecked ==
    isAnimGIF =>
        /\ \A k \in 2..Len(frames) :
              i >= k => frames[k] # NoImg /\ Bounds(frames[k]) = Bounds(frames[1])
        /\ err.msg = SizeMsg =>
              /\ pc = "done"
              /\ i > 0
              /\ err.paths = <<inputImages[i + 1], inputImages[1]>>
              /\ Bounds(FrameOf(i)) # Bounds(frames[1])
              /\ Events("encodeAll") = {}
        /\ (pc = "animEncode" \/ Events("encodeAll") # {}) => AllFramesAlike

C2_Witness ==
    /\ isAnimGIF
    /\ err.msg = SizeMsg
    /\ upscale > 1
    /\ i > 1

\* C3: in animated mode the destination is opened only when every input has
\* been loaded, dithered, post-processed and bounds-checked; a run that ends on
\* a load failure or a bounds mismatch has opened and written nothing.
C3_OpenAfterAllFrames ==
    isAnimGIF =>
        /\ (Events("open") \cup Events("openFailed") # {} \/ stdout # <<>> \/ ~DiskUntouched) =>
              /\ i = Len(inputImages)
              /\ AllFramesAlike
              /\ Cardinality(Events("load")) = Len(inputImages)
              /\ Cardinality(Events("postProc")) = Len(inputImages)
        /\ err.msg \in {"error loading", SizeMsg} =>
              /\ pc = "done"
              /\ Events("open") \cup Events("openFailed") = {}
              /\ file = NoFile
              /\ DiskUntouched
              /\ stdout = <<>>

C3_Witness ==
    /\ isAnimGIF
    /\ Len(inputImages) = 3
    /\ err.msg = SizeMsg
    /\ pc = "done"
    /\ flags.out # StdoutArg

\* C4: a successful animated run over N inputs encodes the animation once, as
\* its last step; what it writes holds N frames, frame k made from input k, and
\* N delays, and no input was written on its own.
C4_EncodedOnce ==
    /\ Cardinality(Events("encodeAll")) <= 1
    /\ (isAnimGIF /\ Succeeded) =>
          /\ Cardinality(Events("encodeAll")) = 1
          /\ log[Len(log)][1] = "encodeAll"
          /\ Written.kind = "animation"
          /\ Len(Written.Image) = Len(inputImages)
          /\ Len(Written.Delay) = Len(inputImages)
          /\ \A k \in 1..Len(inputImages) : Written.Image[k] = FrameOf(k - 1)
          /\ Events("encode") = {}
          /\ Len(stdout) <= 1
          /\ \A q \in DOMAIN disk : disk[q].kind \in {"dir", "old", "animation"}

C4_Witness ==
    /\ isAnimGIF
    /\ Succeeded
    /\ Len(inputImages) = 3
    /\ Written.kind = "animation"

ValueIs(d, v) == d >= v.lo /\ (d - v.lo) % 100 = 0 /\ (d - v.lo) \div 100 = v.hi

DelaysSet == isAnimGIF /\ SetupDone /\ err # FpsError

\* C6: in animated mode every frame's delay is max(round(100 / fps), 1)
\* centiseconds, the same for all frames: 1 for fps 100, 4 for fps 24, 100 for
\* fps 1, and never below 1 for any fps > 0.
C6_DelayFormula ==
    DelaysSet =>
        /\ Len(delays) = Len(inputImages)
        /\ \A k \in 1..Len(delays) :
              /\ delays[k] >= 1
              /\ ValueIs(delays[k], MaxWithOne(RoundedHundredOver(flags.fps.val)))
              /\ flags.fps.val = Fps(100, 1) => delays[k] = 1
              /\ flags.fps.val = Fps(24, 1) => delays[k] = 4
              /\ flags.fps.val = Fps(1, 1) => delays[k] = 100

\* The uint u - 1, for u > 0.
UintPred(u) == IF u.lo > 0 THEN UintOf(u.hi, u.lo - 1) ELSE UintOf(u.hi - 1, Limb - 1)

\* C7: the stored loop count depends on the user's value only: 0 is stored as
\* 0, 1 as -1, every N > 1 as N - 1; nothing but 0 is stored as 0 and nothing
\* but 1 as -1.
C7_LoopCountMapping ==
    DelaysSet =>
        LET u == flags.loop
            stored == animGIF.LoopCount
        IN /\ u = UintOf(0, 0) => stored = 0
           /\ u = UintOf(0, 1) => stored = -1
           /\ u \notin {UintOf(0, 0), UintOf(0, 1)} =>
                 /\ stored >= 0
                 /\ UintOf(stored \div Limb, stored % Limb) = UintPred(u)
           /\ stored = 0 => u = UintOf(0, 0)
           /\ stored = -1 => u = UintOf(0, 1)

\* ---------------------------------------------- recolor and postProcImage
Recolored == Len(recolorPalette) # 0
IsProcessed(im) == "Pix" \in DOMAIN im

\* The paletted image the engine makes of the input that im came from.
SrcPaletted(im) == DitherPaletted(getInputImage(inputImages[im.id + 1], im.id))

\* The paletted images the run has post-processed so far.
PalettedResults ==
    (IF img.type = "Paletted" THEN {img} ELSE {})
        \cup {frames[k] : k \in {j \in 1..Len(frames) : frames[j] # NoImg}}

SameRGB(c, d) == c.R = d.R /\ c.G = d.G /\ c.B = d.B
FirstSameRGB(k) == Min({j \in 1..Len(palette) : SameRGB(palette[j], palette[k])})

\* C8: with an active recolor binding, after recolor the table
\* entry at position i of a paletted image is RecolorPalette[j], alpha
\* included, for the first position j whose Palette entry has the R, G and B of
\* Palette[i], which is i itself when no earlier entry repeats that colour; no
\* pixel index changes.
C8_RecolorFirstMatch ==
    Recolored =>
        \A im \in PalettedResults :
            /\ Len(im.Palette) = Len(palette)
            /\ \A k \in 1..Len(palette) :
                  /\ im.Palette[k] = recolorPalette[FirstSameRGB(k)]
                  /\ FirstSameRGB(k) = k => im.Palette[k] = recolorPalette[k]
            /\ upscale = 1 => im.Pix = SrcPaletted(im).Pix

C8_Witness ==
    /\ Recolored
    /\ upscale = 1
    /\ img.type = "Paletted"
    /\ palette[1] = palette[2]
    /\ recolorPalette[1] # recolorPalette[2]
    /\ \E k \in 1..Len(img.Pix) : img.Pix[k] = 1

\* C8, in the words of the specification: the table entry at every position i is RecolorPalette[i], for
\* every ordered palette, and no pixel index changes.
C8_IndexForIndex ==
    Recolored =>
        \A im \in PalettedResults :
            /\ \A k \in 1..Len(palette) : im.Palette[k] = recolorPalette[k]
            /\ upscale = 1 => im.Pix = SrcPaletted(im).Pix

\* C9: recoloring the generic image through the slow path gives, at every
\* pixel, a colour equal to the one the fast path gives the paletted image of
\* the same input.
C9_FastEqualsSlow ==
    (Recolored /\ upscale = 1 /\ IsProcessed(img) /\ img.type # "Paletted") =>
        \A k \in 1..Len(img.Pix) : ColorEq(img.Pix[k], At(recolor(SrcPaletted(img)), k))

\* Two colours the palette drawer cannot tell apart: every premultiplied
\* 16-bit channel differs by at most 1.
Near(a, b) == a - b \in {-1, 0, 1}
Same16(c, d) ==
    LET p == ColorRGBA(c)
        q == ColorRGBA(d)
    IN Near(p.r, q.r) /\ Near(p.g, q.g) /\ Near(p.b, q.b) /\ Near(p.a, q.a)

FirstSame16(tab, idx) == Min({j \in 0..(Len(tab) - 1) : Same16(tab[j + 1], tab[idx + 1])})

\* C10: postProcImage with factor f > 1 on a W x H paletted image
\* returns a paletted image of width f*W and height f*H with the table it had
\* before resampling, no entry added; the index of output pixel (x, y) is the
\* first table index whose colour is within 1 of the entry of source pixel
\* (x div f, y div f) in every premultiplied 16-bit channel, which is that
\* pixel's own index unless an earlier table entry is that close to it.
C10_UpscaleFirstEqual ==
    upscale > 1 =>
        \A im \in PalettedResults :
            LET src == SrcPaletted(im) IN
            /\ im.W = upscale * src.W
            /\ im.H = upscale * src.H
            /\ Len(im.Palette) = Len(palette)
            /\ \A x \in 0..(im.W - 1), y \in 0..(im.H - 1) :
                  LET s == src.Pix[PixPos(src.W, x \div upscale, y \div upscale)]
                      o == im.Pix[PixPos(im.W, x, y)]
                  IN /\ o = FirstSame16(im.Palette, s)
                     /\ FirstSame16(im.Palette, s) = s => o = s

C10_Witness ==
    /\ upscale > 1
    /\ Recolored
    /\ img.type = "Paletted"
    /\ img.W = upscale * 2
    /\ img.Palette[1] = img.Palette[2]
    /\ \A k \in 1..Len(img.Pix) : img.Pix[k] = 0
    /\ \E k \in 1..2 : SrcPaletted(img).Pix[k] = 1

\* C10, in the words of the specification: every output pixel's index is the index of its
\* nearest-neighbour source pixel, for every palette the frame can carry.
C10_IndexPreserved ==
    upscale > 1 =>
        \A im \in PalettedResults :
            LET src == SrcPaletted(im) IN
            /\ im.W = upscale * src.W
            /\ im.H = upscale * src.H
            /\ Len(im.Palette) = Len(palette)
            /\ \A x \in 0..(im.W - 1), y \in 0..(im.H - 1) :
                  im.Pix[PixPos(im.W, x, y)] =
                      src.Pix[PixPos(src.W, x \div upscale, y \div upscale)]

\* ----------------------------------------------- frames and configuration
\* What postProcImage has returned for a paletted image so far: the frames of
\* an animation, or the image of a static GIF that is post-processed.
PostProcessedPaletted ==
    {frames[k] : k \in {j \in 1..Len(frames) : frames[j] # NoImg}}
        \cup (IF ~isAnimGIF /\ outFormat = "gif" /\ postProcNeeded /\ IsProcessed(img)
              THEN {img} ELSE {})

\* C11: whatever the recolor binding and the upscale factor, postProcImage
\* returns for a paletted image a paletted image whose table is, entry for
\* entry and in the same order, the table the image carried just before
\* resampling; it is never a generic image, so every frame of an animation is
\* paletted.
C11_PalettedStaysPaletted ==
    \A im \in PostProcessedPaletted :
        /\ im.type = "Paletted"
        /\ im.Palette = recolor(SrcPaletted(im)).Palette
        /\ ~Recolored => im.Palette = palette
        /\ \A k \in 1..Len(im.Pix) : im.Pix[k] \in 0..(Len(im.Palette) - 1)

C11_Witness ==
    /\ isAnimGIF
    /\ Recolored
    /\ upscale > 1
    /\ Len(frames) >= 2
    /\ frames[2] # NoImg
    /\ frames[2].type = "Paletted"
    /\ frames[2].W = upscale * 2

\* C12: in animated mode the shared configuration comes from frame 0 alone:
\* without a recolor palette it is the configuration the engine reported for
\* the first input, with one its colour model is the recolor palette and its
\* width and height are those of the post-processed frame 0; later frames
\* leave it as it is.
C12_ConfigFromFrame0 ==
    isAnimGIF =>
        IF frames = <<>> \/ frames[1] = NoImg
        THEN animGIF.Config = NoConfig
        ELSE LET first == Decoded(inputImages[1]) IN
             /\ ~Recolored =>
                   animGIF.Config = [ColorModel |-> palette, Width |-> first.W, Height |-> first.H]
             /\ Recolored =>
                   animGIF.Config = [ColorModel |-> recolorPalette, Width |-> frames[1].W,
                                     Height |-> frames[1].H]
             /\ Recolored => animGIF.Config.Width = upscale * first.W

C12_Witness ==
    /\ isAnimGIF
    /\ Recolored
    /\ upscale > 1
    /\ i >= 2
    /\ animGIF.Config.ColorModel = recolorPalette
    /\ animGIF.Config.Width = upscale * 2

\* ------------------------------------------------------------ output paths
\* The input whose turn it is when the event at position k of the log happens.
InputAt(k) == inputImages[log[Max({j \in Events("load") : j < k})][2] + 1]

\* C13: in independent mode with a directory target every input is written to
\* the directory joined with the input's base name without its extension,
\* followed by "." and the resolved format; the input's directory and its own
\* extension are not part of the name.
C13_DerivedName ==
    (outIsDir /\ flags.out.dir = "") =>
        \A k \in Events("open") \cup Events("openFailed") :
            /\ outFormat \in {"png", "gif"}
            /\ log[k][2] = Path(flags.out.stem, InputAt(k).stem, outFormat)

C13_Witness ==
    /\ outIsDir
    /\ outFormat = "gif"
    /\ \E k \in Events("open") : InputAt(k) = InD /\ log[k][2] = Path("outdir", "a", "gif")

\* A file that exists and is not in the middle of being written.
Complete(q) == q \in DOMAIN disk /\ disk[q].kind # "empty"

\* The step appends one event of this kind to the log.
Logs(kind) == Len(log') = Len(log) + 1 /\ log'[Len(log')][1] = kind

\* What C14 asks of every step.
C14_Step ==
    /\ Logs("openFailed") =>
          LET path == log'[Len(log')][2] IN
          /\ flags.noOverwrite
          /\ path \in DOMAIN disk
          /\ disk' = disk
          /\ stdout' = stdout
          /\ pc' = "done"
          /\ err'.msg = "open failed"
          /\ err'.paths = <<path>>
          /\ i' = i
          /\ ~isAnimGIF => path = OutputPath(inputImages[i + 1])
          /\ (outIsDir /\ ~isAnimGIF) =>
                \A k \in 1..i :
                    /\ Complete(OutputPath(inputImages[k]))
                    /\ disk[OutputPath(inputImages[k])].kind = "file"
    /\ flags.noOverwrite => \A q \in DOMAIN disk : Complete(q) => disk'[q] = disk[q]
    /\ (Logs("open") /\ log'[Len(log')][2] \in DOMAIN disk) =>
          /\ ~flags.noOverwrite
          /\ disk'[log'[Len(log')][2]].kind = "empty"
    /\ (Logs("encode") /\ file # StdoutArg) => disk'[file].kind = "file"
    /\ (Logs("encodeAll") /\ file # StdoutArg) => disk'[file].kind = "animation"

\* C14: with no-overwrite, when the output path of input k exists at its turn
\* the run ends there with an error, that file is left as it was, the outputs
\* of inputs 0..k-1 stay complete on disk and no later input is loaded,
\* dithered or written; without no-overwrite a destination that exists is
\* truncated and replaced.
C14_NoOverwrite == [][C14_Step]_vars

C14_Witness ==
    /\ flags.noOverwrite
    /\ outIsDir
    /\ pc = "done"
    /\ err.msg = "open failed"
    /\ i = 1
    /\ Len(inputImages) = 2
    /\ Complete(OutputPath(inputImages[1]))
    /\ disk[OutputPath(inputImages[1])].kind = "file"

\* ---------------------------------------------------------- validation
\* preProcess let the command line through.
Validated == outFormat # ""

LiteralOrStdout == flags.out = StdoutArg \/ ~IsDir(disk, flags.out)

\* C15: several inputs pass validation only with the gif format or an existing
\* directory as target; so a run that passed validation opens and writes a
\* literal file or the standard output at most once, for its single input or
\* for its single animation, never once per input.
C15_SingleTargetOnce ==
    /\ (Validated /\ Len(inputImages) > 1) => (outFormat = "gif" \/ TargetIsDir)
    /\ (Validated /\ LiteralOrStdout) =>
          /\ Cardinality({k \in Events("open") \cup Events("openFailed") :
                             log[k][2] = flags.out}) <= 1
          /\ Cardinality(Events("encode") \cup Events("encodeAll")) <= 1
          /\ Len(stdout) <= 1
          /\ Events("encode") # {} => Len(inputImages) = 1
          /\ \A q \in DOMAIN disk : disk[q].kind \notin {"dir", "old"} => q = flags.out

C15_Witness ==
    /\ Succeeded
    /\ Len(inputImages) > 1
    /\ flags.out = StdoutArg
    /\ Len(stdout) = 1
    /\ stdout[1].kind = "animation"

RecolorMsg == "recolor palette must have the same number of colors as the initial palette"

\* C16: a recolor palette whose length is not the palette's is refused before
\* anything is dithered or opened; so wherever recolor or postProcImage runs
\* the recolor palette is empty or exactly as long as the palette, and the
\* palette has at least two entries.
C16_RecolorLength ==
    /\ (pc # "preProcess" /\ flags.recolor # <<>> /\ Len(flags.recolor) # Len(flags.palette)) =>
          /\ pc = "done"
          /\ err.msg = RecolorMsg \/ Len(flags.palette) < 2
          /\ ~Validated
          /\ log = <<>>
          /\ DiskUntouched
          /\ stdout = <<>>
    /\ (Validated \/ log # <<>>) =>
          /\ Len(recolorPalette) \in {0, Len(palette)}
          /\ Len(palette) >= 2

C16_Witness ==
    /\ pc = "done"
    /\ err.msg = RecolorMsg
    /\ Len(flags.recolor) > Len(flags.palette)
    /\ Len(flags.palette) >= 2

\* The format the command line asks for: the flag for the standard output and
\* for a directory, else the flag when it is set, else the extension of the
\* file, png when there is none.
AskedFormat ==
    IF flags.out = StdoutArg \/ TargetIsDir \/ flags.format.set THEN flags.format.val
    ELSE IF flags.out.ext = "" THEN "png" ELSE flags.out.ext

GifMsg == "the GIF format only supports 256 colors or less in the palette"

\* Everything the run has written as a GIF, static image or animation.
WrittenGifs ==
    {disk[q] : q \in {r \in DOMAIN disk : disk[r].kind \in {"file", "animation"}
                                             /\ disk[r].fmt = "gif"}}
        \cup {stdout[k] : k \in {j \in 1..Len(stdout) : stdout[j].fmt = "gif"}}

\* C17: with the gif format resolved and a palette of more than 256 colours
\* the run fails with a configuration error before anything is processed; so
\* every run that reaches a static or animated GIF encode has a palette, and a
\* recolor palette if there is one, of at most 256 entries. Such a palette is
\* accepted when the resolved format is png.
C17_GifPaletteLimit ==
    /\ (pc # "preProcess" /\ AskedFormat = "gif" /\ Len(flags.palette) > MaxGifColors) =>
          /\ pc = "done"
          /\ err # NoErr
          /\ ~Validated
          /\ log = <<>>
          /\ DiskUntouched
          /\ stdout = <<>>
    /\ (Validated /\ outFormat = "gif") =>
          /\ Len(palette) <= MaxGifColors
          /\ Len(recolorPalette) <= MaxGifColors
    /\ (WrittenGifs # {} \/ pc = "animEncode" \/ (pc = "encode" /\ outFormat = "gif")) =>
          /\ Len(palette) <= MaxGifColors
          /\ Len(recolorPalette) <= MaxGifColors
    /\ \A g \in WrittenGifs :
          g.kind = "file" => Len(g.image.Palette) <= MaxGifColors
    /\ (pc # "preProcess" /\ AskedFormat = "png" /\ Len(flags.palette) > MaxGifColors
          /\ Len(flags.recolor) \in {0, Len(flags.palette)}
          /\ (Len(flags.in) = 1 \/ TargetIsDir)) =>
          /\ Validated
          /\ outFormat = "png"
          /\ err.msg # GifMsg

C17_Witness ==
    /\ pc = "done"
    /\ err.msg = GifMsg
    /\ Len(flags.palette) = MaxGifColors + 1
    /\ flags.format.set
    /\ flags.out = OutPng

\* C18: for the standard output and for an existing directory the format is
\* the format flag, png when it is not set; for a literal file without the flag
\* it is the extension when that is png or gif, png when there is none, and an
\* error for any other extension; a flag that is set overrides the extension.
\* The resolved format is always png or gif.
C18_FormatResolution ==
    /\ Validated =>
          /\ outFormat \in {"png", "gif"}
          /\ outIsDir = TargetIsDir
          /\ (flags.out = StdoutArg \/ TargetIsDir) => outFormat = flags.format.val
          /\ ~flags.format.set => flags.format.val = "png"
          /\ (LiteralOrStdout /\ flags.out # StdoutArg /\ ~flags.format.set) =>
                /\ flags.out.ext \in {"png", "gif"} => outFormat = flags.out.ext
                /\ flags.out.ext = "" => outFormat = "png"
                /\ flags.out.ext \in {"png", "gif", ""}
          /\ flags.format.set => outFormat = flags.format.val
    /\ (pc # "preProcess" /\ AskedFormat \notin {"png", "gif"}) =>
          /\ pc = "done"
          /\ ~Validated
          /\ err.msg = "unsupported format" \/ Len(flags.palette) < 2 \/ err.msg = RecolorMsg
          /\ log = <<>>

C18_Witness ==
    /\ Validated
    /\ flags.format.set
    /\ flags.format.val = "gif"
    /\ flags.out = OutPng
    /\ outFormat = "gif"
    /\ Events("encode") # {}

\* ------------------------------------------------------------ static GIFs
\* The static GIFs written after dithering and post-processing.
PostGifs == IF postProcNeeded THEN {g \in WrittenGifs : g.kind = "file"} ELSE {}

\* C19: a static GIF written with the pre-processed strategy hands the encoder
\* a frame that is already paletted and whose table fits the colour limit, so
\* the encoder calls no quantizer and writes the frame's table as it is; the
\* quantizer handed over is the fixed-palette one, holding the recolor palette,
\* when recolor is active, and the dithering engine when only upscale is.
C19_QuantizerNotCalled ==
    \A g \in PostGifs :
        /\ g.quantizer = (IF Recolored THEN "fakeQuantizer" ELSE "ditherer")
        /\ g.quantizer = "fakeQuantizer" => Quantize(g.quantizer) = recolorPalette
        /\ g.NumColors = Len(recolorPalette)
        /\ ~g.quantized
        /\ g.image.type = "Paletted"
        /\ g.image = FrameOf(g.image.id)
        /\ Len(g.image.Palette) = Len(palette)

C19_Witness ==
    /\ ~Recolored
    /\ upscale > 1
    /\ \E g \in PostGifs : g.quantizer = "ditherer" /\ g.image.W = upscale * 2

\* C19, in the words of the specification: the quantizer handed to the encoder
\* is the fixed-palette one, never the dithering engine.
C19_FixedPaletteQuantizer ==
    \A g \in PostGifs : g.quantizer = "fakeQuantizer"

\* ------------------------------------------------------------- sequencing
InputEvents == {k \in 1..Len(log) : log[k][1] \in {"load", "dither", "postProc", "encode"}}
EventsOf(kind, n) == {k \in Events(kind) : log[k][2] = n}
Before(a, b) == \A x \in a : \A y \in b : x < y

\* C20: inputs are loaded, dithered and written or accumulated one at a time
\* and in input order; input i+1 is not touched before input i is written or
\* accumulated; after the first error nothing is done to a later input,
\* nothing more is opened or written, and nothing is retried.
C20_SequentialFailFast ==
    /\ \A a, b \in InputEvents : a < b => log[a][2] <= log[b][2]
    /\ \A k \in InputEvents : log[k][2] <= i /\ log[k][2] < Len(inputImages)
    /\ \A n \in 0..(Len(inputImages) - 1) :
          /\ \A kind \in {"load", "dither", "postProc", "encode"} :
                Cardinality(EventsOf(kind, n)) <= 1
          /\ Before(EventsOf("load", n), EventsOf("dither", n))
          /\ Before(EventsOf("dither", n), EventsOf("postProc", n))
          /\ Before(EventsOf("dither", n), EventsOf("encode", n))
          /\ Before(EventsOf("postProc", n), EventsOf("encode", n))
          /\ (n > 0 /\ EventsOf("load", n) # {}) =>
                /\ EventsOf("load", n - 1) # {}
                /\ EventsOf("dither", n - 1) # {} \/ EventsOf("encode", n - 1) # {}
                /\ isAnimGIF => frames[n] # NoImg
                /\ ~isAnimGIF => EventsOf("encode", n - 1) # {}
          /\ n < i =>
                /\ EventsOf("load", n) # {}
                /\ EventsOf("dither", n) # {} \/ EventsOf("encode", n) # {}
    /\ Cardinality(Events("open")) <= Cardinality(Events("load"))
    /\ Cardinality(Events("openFailed")) <= 1
    /\ err # NoErr =>
          /\ pc = "done"
          /\ Events("encodeAll") = {}
          /\ pc # "preProcess" /\ Validated /\ ~isAnimGIF =>
                /\ i < Len(inputImages)
                /\ EventsOf("encode", i) = {}
                /\ EventsOf("dither", i) = {}
                /\ Cardinality(Events("encode")) = i

C20_Witness ==
    /\ ~isAnimGIF
    /\ Len(inputImages) = 3
    /\ err.msg = "error loading"
    /\ pc = "done"
    /\ i = 1
    /\ EventsOf("encode", 0) # {}
    /\ EventsOf("load", 2) = {}

\* ------------------------------------------------ the animation's dimensions
\* C27: when the frames are handed to the encoder, the width and height of
\* the animation's configuration are those of every frame.
C27_ConfigMatchesFrames ==
    pc = "animEncode" =>
        \A k \in 1..Len(frames) :
            /\ frames[k].W = animGIF.Config.Width
            /\ frames[k].H = animGIF.Config.Height

\* -------------------------------------------------- outputs of one directory
\* C28: with a directory target, inputs with different paths are written to
\* different paths, and no path is opened for two inputs of the run.
C28_DistinctOutputs ==
    (Validated /\ TargetIsDir) =>
        /\ \A a, b \in 1..Len(inputImages) :
              inputImages[a] # inputImages[b] =>
                  OutputPath(inputImages[a]) # OutputPath(inputImages[b])
        /\ \A j, k \in Events("open") \cup Events("openFailed") :
              j # k => log[j][2] # log[k][2]

\* ------------------------------------------------ simultaneous substitution
\* The images the run has dithered and post-processed so far.
Results ==
    (IF IsProcessed(img) THEN {img} ELSE {})
        \cup {frames[k] : k \in {j \in 1..Len(frames) : frames[j] # NoImg}}

\* The colour an image of the type keeps for c.
Kept(type, c) == IF type = "Paletted" THEN c ELSE Stored(type, c)

DirectGif == ~isAnimGIF /\ outFormat = "gif" /\ ~postProcNeeded

\* Input n (0-based) has been written or put into the animation's frames.
Handled(n) ==
    \/ EventsOf("encode", n) # {}
    \/ (isAnimGIF /\ n + 1 <= Len(frames) /\ frames[n + 1] # NoImg)

\* C26: postProcImage is applied at most once to an input: exactly once to
\* frame 0 and to every later frame of an animation, to a PNG and to a
\* pre-processed static GIF, never to a direct static GIF; the result is the
\* input's size times the upscale factor and no table is recolored twice.
C26_PostProcessedOnce ==
    /\ \A n \in 0..(Len(inputImages) - 1) :
          /\ Cardinality(EventsOf("postProc", n)) <= 1
          /\ Handled(n) =>
                Cardinality(EventsOf("postProc", n)) = (IF DirectGif THEN 0 ELSE 1)
    /\ \A im \in Results :
          LET in == getInputImage(inputImages[im.id + 1], im.id) IN
          /\ im.W = upscale * in.W
          /\ im.H = upscale * in.H
          /\ im.type = "Paletted" =>
                im.Palette = (IF Recolored THEN RecolorTable(palette, 1) ELSE palette)

C26_Witness ==
    /\ Succeeded
    /\ isAnimGIF
    /\ Recolored
    /\ upscale > 1
    /\ Len(frames) > 1
    /\ \A n \in 0..(Len(frames) - 1) : Cardinality(EventsOf("postProc", n)) = 1

\* ------------------------------------------------------ dithering, counted
\* C21: every input that is written or accumulated has been dithered
\* exactly once, in every mode and strategy, the direct static GIF included;
\* no input is dithered more than once.
C21_DitheredOnce ==
    \A n \in 0..(Len(inputImages) - 1) :
        /\ Cardinality(EventsOf("dither", n)) <= 1
        /\ Handled(n) => Cardinality(EventsOf("dither", n)) = 1

\* ------------------------------------------------ saturation and grayscale
\* The command line with the grayscale flag in place of the saturation.
WithGrayscale(f) == [f EXCEPT !.grayscale = TRUE, !.saturation = Percent("", 0)]

\* C22: a saturation of -100% or less, the grayscale flag not given, does
\* what the grayscale flag does, for every palette: preProcess ends with the
\* same grayscale and saturation settings and every loaded image is gray.
C22_SaturationIsGrayscale ==
    (~flags.grayscale /\ parsePercentArg(flags.saturation) <= -100) =>
        /\ GrayscaleOf(flags) = GrayscaleOf(WithGrayscale(flags))
        /\ SaturationOf(flags) = SaturationOf(WithGrayscale(flags))
        /\ (img # NoImg /\ "gray" \in DOMAIN img) => img.gray

\* ------------------------------------------------------------ compression
\* The command line with the default compression.
WithDefaultCompression(f) == [f EXCEPT !.compression = "default"]

\* C23: with the gif format resolved the compression setting changes
\* nothing: preProcess decides as it does for the default setting, and no run
\* fails for its compression value.
C23_CompressionIgnoredForGif ==
    /\ (pc = "preProcess" /\ ResolveFormat(flags, disk).fmt = "gif") =>
          PreProcessError(flags, disk) = PreProcessError(WithDefaultCompression(flags), disk)
    /\ (pc # "preProcess" /\ AskedFormat = "gif") => err.msg # "invalid compression type"

\* ------------------------------------------------- the static GIF strategy
\* C25: a static GIF is written with the direct strategy exactly when there
\* is no recolor binding and the upscale factor is 1, and then postProcImage
\* is not called; otherwise the image is dithered and post-processed first.
C25_DirectIffPlain ==
    (SetupDone /\ Validated /\ ~isAnimGIF /\ outFormat = "gif") =>
        /\ ~postProcNeeded <=> (Len(recolorPalette) = 0 /\ upscale = 1)
        /\ \A n \in 0..(Len(inputImages) - 1) :
              EventsOf("encode", n) # {} =>
                  Cardinality(EventsOf("postProc", n)) = (IF postProcNeeded THEN 1 ELSE 0)

\* ------------------------------------------------------- runs that succeed
\* Something has been written to a file or to the standard output.
SomethingWritten ==
    \/ stdout # <<>>
    \/ \E q \in DOMAIN disk : disk[q].kind \in {"file", "animation"}

\* C30: a run that ends without an error has written at least one output,
\* and the list of inputs, patterns expanded, is not empty when processing
\* starts.
C30_SuccessWrites ==
    /\ Succeeded => SomethingWritten
    /\ (pc # "preProcess" /\ Validated) => inputImages # <<>>

\* ------------------------------------------------------------ matrix names
\* Two names that differ in case, or in hyphens for underscores, only.
SameName(a, b) == EdmKey(a) = EdmKey(b)

\* The edm command was given one argument that is a documented name.
DocumentedArg ==
    /\ flags.command = "edm"
    /\ Len(flags.args) = 1
    /\ \E d \in DocumentedNames : SameName(flags.args[1], d)

\* C24: every matrix name the manual lists, aliases included, is accepted
\* in any case and with hyphens for underscores: the matrix is found by its
\* name, with no JSON or file parsing and no error.
C24_DocumentedNamesAccepted ==
    (DocumentedArg /\ Validated /\ pc \notin {"preProcess", "edm"}) =>
        /\ err.msg # NoMatrixMsg
        /\ ditherer.Matrix.name \notin {"nil", "custom"}
====
